---- MODULE Spec2Model ----
(***************************************************************************)
(* Model of the lcd1602-driver crate: the command encoders, the parallel    *)
(* 4-bit and 8-bit transports (pin by pin) and the display controller       *)
(* (constructors, initialization sequences, public operations).             *)
(*                                                                          *)
(* A function of the crate is modelled as the sequence of primitive         *)
(* effects it performs (pin drives, delays, transport writes); the          *)
(* stepping actions below execute such a sequence one primitive at a time   *)
(* and give every fallible primitive (a pin drive) both outcomes.  The `?`  *)
(* operator of the source is the abort in PinFail.                          *)
(***************************************************************************)
EXTENDS Integers, Sequences, FiniteSets, TLC

VARIABLES
    hd,            \* life of the LCD1602 value: "none", "init", "live", "failed"
    bus,           \* transport owned by the controller: "none", "four", "eight", "i2c"
    entry_mode,    \* LCD1602.entry_mode
    display_mode,  \* LCD1602.display_mode
    pins,          \* level last driven successfully on each output pin
    op,            \* public operation (or constructor) last called
    result,        \* its result: "none", "run", "Ok", "Err"
    ctl,           \* what the running operation has still to do (writes, delays)
    wr,            \* what the running transport write has still to do
    wres,          \* result of the last transport write: "none", "run", "ok", "err"
    cur,           \* arguments of the last transport write
    trace,         \* transport writes and controller delays of the operation
    ev,            \* primitives attempted by the last transport write, with outcome
    pulses,        \* pin levels at each rising edge of EN during the operation
    nops,          \* number of public operations called since construction
    calls,         \* the last public operations called, with their arguments
    limit,         \* number of public operations the caller makes at most
    keep           \* number of calls remembered in calls

vars == <<hd, bus, entry_mode, display_mode, pins, op, result, ctl, wr, wres,
          cur, trace, ev, pulses, nops, calls, limit, keep>>

(***************************************************************************)
(* Bounds of the model.                                                     *)
(***************************************************************************)
MaxOps == 2        \* public operations called after construction
MaxLen == 2        \* length of the slice given to write_bytes

Byte == 0..255
SampleBytes == {0, 65, 165}       \* 0x00, 'A', 0xA5
SliceBytes == {65, 165}           \* elements of the slices given to write_bytes
SamplePos == {5, 64, 133}         \* 0x05, 0x40, 0x85
SampleChars == {65, 321, 128512}  \* 'A', U+0141, U+1F600
SampleStrs == {<<>>, <<65>>, <<321, 65>>, <<128512>>}   \* strs as sequences of chars

(***************************************************************************)
(* u8 arithmetic.                                                           *)
(***************************************************************************)
Bit(b, i) == (b \div (2 ^ i)) % 2

RECURSIVE OrFrom(_, _, _)
OrFrom(a, b, i) ==
    IF i > 7 THEN 0
    ELSE (IF Bit(a, i) = 1 \/ Bit(b, i) = 1 THEN 2 ^ i ELSE 0) + OrFrom(a, b, i + 1)

RECURSIVE AndFrom(_, _, _)
AndFrom(a, b, i) ==
    IF i > 7 THEN 0
    ELSE (IF Bit(a, i) = 1 /\ Bit(b, i) = 1 THEN 2 ^ i ELSE 0) + AndFrom(a, b, i + 1)

BitOr(a, b) == OrFrom(a, b, 0)
BitAnd(a, b) == AndFrom(a, b, 0)

(***************************************************************************)
(* entry_mode.rs                                                            *)
(***************************************************************************)
ENTRY_MODE == 4
CURSOR_MOVE_INCREMENT == 2
DISPLAY_SHIFT_ON == 1
CURSOR_MOVE_DECREMENT == 0
DISPLAY_SHIFT_OFF == 0

CursorMode == {"Increment", "Decrement"}
ShiftMode == {"On", "Off"}
EntryMode == [move_direction : CursorMode, display_shift : ShiftMode]

EntryModeFlags_from_CursorMode(direction) ==
    IF direction = "Increment" THEN CURSOR_MOVE_INCREMENT ELSE CURSOR_MOVE_DECREMENT

EntryModeFlags_from_ShiftMode(shift) ==
    IF shift = "On" THEN DISPLAY_SHIFT_ON ELSE DISPLAY_SHIFT_OFF

\* EntryMode::as_byte with the two flag bits exchanged
EntryMode_as_byte_swapped(self) ==
    BitOr(BitOr(ENTRY_MODE,
                IF self.move_direction = "Increment" THEN DISPLAY_SHIFT_ON ELSE 0),
          IF self.display_shift = "On" THEN CURSOR_MOVE_INCREMENT ELSE 0)

EntryMode_as_byte(self) ==
    BitOr(BitOr(ENTRY_MODE, EntryModeFlags_from_CursorMode(self.move_direction)),
          EntryModeFlags_from_ShiftMode(self.display_shift))

EntryMode_default == [move_direction |-> "Increment", display_shift |-> "Off"]

(***************************************************************************)
(* display_control.rs                                                       *)
(***************************************************************************)
DISPLAY_CONTROL == 8
DISPLAY_ON == 4
CURSOR_ON == 2
CURSOR_BLINKING_ON == 1
DISPLAY_OFF == 0
CURSOR_OFF == 0
CURSOR_BLINKING_OFF == 0

OnOff == {"On", "Off"}
DisplayMode == [cursor_visibility : OnOff, cursor_blink : OnOff, display : OnOff]

DisplayControlFlags_from_Display(state) ==
    IF state = "On" THEN DISPLAY_ON ELSE DISPLAY_OFF

DisplayControlFlags_from_Cursor(state) ==
    IF state = "On" THEN CURSOR_ON ELSE CURSOR_OFF

DisplayControlFlags_from_CursorBlink(state) ==
    IF state = "On" THEN CURSOR_BLINKING_ON ELSE CURSOR_BLINKING_OFF

\* DisplayMode::as_byte without the display-control marker bit
DisplayMode_as_byte_unmarked(self) ==
    BitOr(BitOr(DisplayControlFlags_from_Display(self.display),
                DisplayControlFlags_from_Cursor(self.cursor_visibility)),
          DisplayControlFlags_from_CursorBlink(self.cursor_blink))

DisplayMode_as_byte(self) ==
    BitOr(BitOr(BitOr(DISPLAY_CONTROL, DisplayControlFlags_from_Display(self.display)),
                DisplayControlFlags_from_Cursor(self.cursor_visibility)),
          DisplayControlFlags_from_CursorBlink(self.cursor_blink))

\* the default the documentation of Default for DisplayMode describes
DisplayMode_default_documented ==
    [cursor_visibility |-> "Off", cursor_blink |-> "Off", display |-> "On"]

DisplayMode_default ==
    [cursor_visibility |-> "On", cursor_blink |-> "On", display |-> "On"]

(***************************************************************************)
(* The primitives of a transport write: one pin drive (fallible) or one     *)
(* call of the delay provider (infallible).                                 *)
(***************************************************************************)
PinNames == {"rs", "en", "d0", "d1", "d2", "d3", "d4", "d5", "d6", "d7"}

PinOp(p, l) == [k |-> "pin", pin |-> p, lvl |-> l, us |-> 0]
DelayOp(n) == [k |-> "delay", pin |-> "-", lvl |-> "-", us |-> n]

\* if c { pin.set_high() } else { pin.set_low() }
Drive(p, c) == PinOp(p, IF c THEN "H" ELSE "L")

\* the enable pulse without its falling edge
PulseEnable_held == <<PinOp("en", "H"), DelayOp(2000)>>

\* the enable pulse without its width: en.set_high()?; en.set_low()?
PulseEnable_no_width == <<PinOp("en", "H"), PinOp("en", "L")>>

\* the enable pulse: en.set_high()?; delay.delay_ms(2); en.set_low()?
PulseEnable == <<PinOp("en", "H"), DelayOp(2000), PinOp("en", "L")>>

(***************************************************************************)
(* data_bus/fourbit_bus.rs                                                  *)
(***************************************************************************)
write_lower_nibble(data) ==
    <<Drive("d4", Bit(data, 0) # 0), Drive("d5", Bit(data, 1) # 0),
      Drive("d6", Bit(data, 2) # 0), Drive("d7", Bit(data, 3) # 0)>>

write_upper_nibble(data) ==
    <<Drive("d4", Bit(data, 4) # 0), Drive("d5", Bit(data, 5) # 0),
      Drive("d6", Bit(data, 6) # 0), Drive("d7", Bit(data, 7) # 0)>>

\* FourBitBus::write sending the lower nibble first
FourBitBus_write_lower_first(byte, data) ==
    <<Drive("rs", data)>>
    \o write_lower_nibble(byte) \o PulseEnable
    \o write_upper_nibble(byte) \o PulseEnable
    \o (IF data THEN <<PinOp("rs", "L")>> ELSE <<>>)

\* FourBitBus::write deasserting register-select after the first pulse
FourBitBus_write_rs_early(byte, data) ==
    <<Drive("rs", data)>>
    \o write_upper_nibble(byte) \o PulseEnable
    \o (IF data THEN <<PinOp("rs", "L")>> ELSE <<>>)
    \o write_lower_nibble(byte) \o PulseEnable

FourBitBus_write(byte, data) ==
    <<Drive("rs", data)>>
    \o write_upper_nibble(byte) \o PulseEnable
    \o write_lower_nibble(byte) \o PulseEnable
    \o (IF data THEN <<PinOp("rs", "L")>> ELSE <<>>)

(***************************************************************************)
(* data_bus/fourbit_eightbit_bus.rs                                         *)
(***************************************************************************)
\* EightBitBus::write with the data lines in reverse bit order
EightBitBus_write_reversed(byte, data) ==
    <<Drive("rs", data)>>
    \o <<Drive("d0", Bit(byte, 7) # 0), Drive("d1", Bit(byte, 6) # 0),
         Drive("d2", Bit(byte, 5) # 0), Drive("d3", Bit(byte, 4) # 0),
         Drive("d4", Bit(byte, 3) # 0), Drive("d5", Bit(byte, 2) # 0),
         Drive("d6", Bit(byte, 1) # 0), Drive("d7", Bit(byte, 0) # 0)>>
    \o PulseEnable
    \o (IF data THEN <<PinOp("rs", "L")>> ELSE <<>>)

EightBitBus_write(byte, data) ==
    <<Drive("rs", data)>>
    \o <<Drive("d0", Bit(byte, 0) # 0), Drive("d1", Bit(byte, 1) # 0),
         Drive("d2", Bit(byte, 2) # 0), Drive("d3", Bit(byte, 3) # 0),
         Drive("d4", Bit(byte, 4) # 0), Drive("d5", Bit(byte, 5) # 0),
         Drive("d6", Bit(byte, 6) # 0), Drive("d7", Bit(byte, 7) # 0)>>
    \o PulseEnable
    \o (IF data THEN <<PinOp("rs", "L")>> ELSE <<>>)

\* FourBitBus::write of fourbit_eightbit_bus.rs, the FourBitBus a BusWidth holds
BusWidth_FourBitBus_write(byte, data) ==
    <<Drive("rs", data)>>
    \o <<Drive("d4", Bit(byte, 4) # 0), Drive("d5", Bit(byte, 5) # 0),
         Drive("d6", Bit(byte, 6) # 0), Drive("d7", Bit(byte, 7) # 0)>>
    \o <<PinOp("en", "H"), DelayOp(2000), PinOp("en", "L")>>
    \o <<Drive("d4", Bit(byte, 0) # 0), Drive("d5", Bit(byte, 1) # 0),
         Drive("d6", Bit(byte, 2) # 0), Drive("d7", Bit(byte, 3) # 0)>>
    \o <<PinOp("en", "H"), DelayOp(2000), PinOp("en", "L")>>
    \o (IF data THEN <<PinOp("rs", "L")>> ELSE <<>>)

\* the variants of enum BusWidth
BusWidth == {"BusWidth::FourBitBus", "BusWidth::EightBitBus"}

\* BusWidth::write with the arms of the match exchanged
BusWidth_write_exchanged(self, byte, data) ==
    CASE self = "BusWidth::FourBitBus" -> EightBitBus_write(byte, data)
      [] self = "BusWidth::EightBitBus" -> BusWidth_FourBitBus_write(byte, data)

\* BusWidth::write: match self { FourBitBus(bus) => bus.write(..), EightBitBus(bus) => .. }
BusWidth_write(self, byte, data) ==
    CASE self = "BusWidth::FourBitBus" -> BusWidth_FourBitBus_write(byte, data)
      [] self = "BusWidth::EightBitBus" -> EightBitBus_write(byte, data)

(***************************************************************************)
(* data_bus/i2c_bus.rs: the 4-bit protocol through a port expander.  One    *)
(* channel write sets register-select, enable and the four data lines of    *)
(* the expander together; a nibble is sent with enable set, held for the    *)
(* pulse width, and sent again with enable cleared.                         *)
(***************************************************************************)
ChanOp(rs, en, nibble) ==
    [k |-> "i2c", pin |-> "i2c",
     lvl |-> [rs |-> IF rs THEN "H" ELSE "L", en |-> IF en THEN "H" ELSE "L",
              d4 |-> IF Bit(nibble, 0) # 0 THEN "H" ELSE "L",
              d5 |-> IF Bit(nibble, 1) # 0 THEN "H" ELSE "L",
              d6 |-> IF Bit(nibble, 2) # 0 THEN "H" ELSE "L",
              d7 |-> IF Bit(nibble, 3) # 0 THEN "H" ELSE "L"],
     us |-> 0]

I2CBus_write_nibble(nibble, data) ==
    <<ChanOp(data, TRUE, nibble), DelayOp(2000), ChanOp(data, FALSE, nibble)>>

I2CBus_write(byte, data) ==
    I2CBus_write_nibble(byte \div 16, data) \o I2CBus_write_nibble(byte % 16, data)

\* B::write of the transport the controller owns
DataBus_write(b, byte, data) ==
    CASE b = "four" -> FourBitBus_write(byte, data)
      [] b = "eight" -> EightBitBus_write(byte, data)
      [] b = "i2c" -> I2CBus_write(byte, data)
      [] b \in BusWidth -> BusWidth_write(b, byte, data)

(***************************************************************************)
(* lib.rs: what an operation of the controller does, in order.              *)
(***************************************************************************)
WriteItem(byte, data) == [k |-> "write", byte |-> byte, data |-> data, us |-> 0]
DelayItem(n) == [k |-> "delay", byte |-> 0, data |-> FALSE, us |-> n]

\* write_command waiting before the write instead of after it
write_command_delay_first(cmd) == <<DelayItem(100), WriteItem(cmd, FALSE)>>

write_command(cmd) == <<WriteItem(cmd, FALSE), DelayItem(100)>>

write_byte_items(data) == <<WriteItem(data, TRUE), DelayItem(100)>>

\* init_4bit with the function-set confirm and the display-control write swapped
init_4bit_swapped(self_entry_mode) ==
    <<DelayItem(15000),
      WriteItem(\h33, FALSE), DelayItem(5000),
      WriteItem(\h32, FALSE), DelayItem(100),
      WriteItem(\h0E, FALSE), DelayItem(100),
      WriteItem(\h28, FALSE), DelayItem(100),
      WriteItem(\h01, FALSE), DelayItem(100),
      WriteItem(EntryMode_as_byte(self_entry_mode), FALSE), DelayItem(100),
      WriteItem(\h80, FALSE), DelayItem(100)>>

\* init_4bit starting with the wake-up byte of the 8-bit path
init_4bit_wake_8bit(self_entry_mode) ==
    <<DelayItem(15000),
      WriteItem(\h30, FALSE), DelayItem(5000),
      WriteItem(\h32, FALSE), DelayItem(100),
      WriteItem(\h28, FALSE), DelayItem(100),
      WriteItem(\h0E, FALSE), DelayItem(100),
      WriteItem(\h01, FALSE), DelayItem(100),
      WriteItem(EntryMode_as_byte(self_entry_mode), FALSE), DelayItem(100),
      WriteItem(\h80, FALSE), DelayItem(100)>>

\* init_4bit with the function-set confirm sent twice
init_4bit_repeat(self_entry_mode) ==
    <<DelayItem(15000),
      WriteItem(\h33, FALSE), DelayItem(5000),
      WriteItem(\h32, FALSE), DelayItem(100),
      WriteItem(\h28, FALSE), DelayItem(100),
      WriteItem(\h28, FALSE), DelayItem(100),
      WriteItem(\h0E, FALSE), DelayItem(100),
      WriteItem(\h01, FALSE), DelayItem(100),
      WriteItem(EntryMode_as_byte(self_entry_mode), FALSE), DelayItem(100),
      WriteItem(\h80, FALSE), DelayItem(100)>>

init_4bit(self_entry_mode) ==
    <<DelayItem(15000),
      WriteItem(\h33, FALSE), DelayItem(5000),
      WriteItem(\h32, FALSE), DelayItem(100),
      WriteItem(\h28, FALSE), DelayItem(100),
      WriteItem(\h0E, FALSE), DelayItem(100),
      WriteItem(\h01, FALSE), DelayItem(100),
      WriteItem(EntryMode_as_byte(self_entry_mode), FALSE), DelayItem(100),
      WriteItem(\h80, FALSE), DelayItem(100)>>

\* init_8bit that sends the entry mode as data and omits 0b0000_0111
init_8bit_short(self_entry_mode) ==
    <<DelayItem(15000),
      WriteItem(\b00110000, FALSE), DelayItem(5000),
      WriteItem(\b00111000, FALSE), DelayItem(100),
      WriteItem(\b00001110, FALSE), DelayItem(100),
      WriteItem(\b00000001, FALSE), DelayItem(100),
      WriteItem(EntryMode_as_byte(self_entry_mode), TRUE), DelayItem(100)>>

\* init_8bit returning right after its last write
init_8bit_no_last_delay(self_entry_mode) ==
    <<DelayItem(15000),
      WriteItem(\b00110000, FALSE), DelayItem(5000),
      WriteItem(\b00111000, FALSE), DelayItem(100),
      WriteItem(\b00001110, FALSE), DelayItem(100),
      WriteItem(\b00000001, FALSE), DelayItem(100),
      WriteItem(\b0000111, FALSE), DelayItem(100),
      WriteItem(EntryMode_as_byte(self_entry_mode), FALSE)>>

init_8bit(self_entry_mode) ==
    <<DelayItem(15000),
      WriteItem(\b00110000, FALSE), DelayItem(5000),
      WriteItem(\b00111000, FALSE), DelayItem(100),
      WriteItem(\b00001110, FALSE), DelayItem(100),
      WriteItem(\b00000001, FALSE), DelayItem(100),
      WriteItem(\b0000111, FALSE), DelayItem(100),
      WriteItem(EntryMode_as_byte(self_entry_mode), FALSE), DelayItem(100)>>

\* write_bytes sending all the bytes first and waiting once at the end
write_bytes_items_batched(string) ==
    [i \in 1..Len(string) |-> WriteItem(string[i], TRUE)]
    \o (IF string = <<>> THEN <<>> ELSE <<DelayItem(100)>>)

RECURSIVE write_bytes_items(_)
write_bytes_items(string) ==
    IF string = <<>> THEN <<>>
    ELSE write_byte_items(Head(string)) \o write_bytes_items(Tail(string))

\* the bytes a str holds for one char: its UTF-8 encoding
char_utf8(c) ==
    IF c < 128 THEN <<c>>
    ELSE IF c < 2048 THEN <<192 + (c \div 64), 128 + (c % 64)>>
    ELSE IF c < 65536
         THEN <<224 + (c \div 4096), 128 + ((c \div 64) % 64), 128 + (c % 64)>>
         ELSE <<240 + (c \div 262144), 128 + ((c \div 4096) % 64),
                128 + ((c \div 64) % 64), 128 + (c % 64)>>

\* string.as_bytes(), the str given as the sequence of its chars
RECURSIVE str_as_bytes(_)
str_as_bytes(string) ==
    IF string = <<>> THEN <<>>
    ELSE char_utf8(Head(string)) \o str_as_bytes(Tail(string))

\* data as u8 saturating at 0xFF instead of truncating
char_as_u8_saturating(c) == IF c > 255 THEN 255 ELSE c

\* data as u8
char_as_u8(c) == c % 256

(***************************************************************************)
(* Initial state: nothing constructed, no pin driven yet.                   *)
(***************************************************************************)
NoWrite == [byte |-> 0, data |-> FALSE]

InitWith(l, n) ==
    /\ hd = "none"
    /\ bus = "none"
    /\ entry_mode = EntryMode_default
    /\ display_mode = DisplayMode_default
    /\ pins = [p \in PinNames |-> "X"]
    /\ op = "none"
    /\ result = "none"
    /\ ctl = <<>>
    /\ wr = <<>>
    /\ wres = "none"
    /\ cur = NoWrite
    /\ trace = <<>>
    /\ ev = <<>>
    /\ pulses = <<>>
    /\ nops = 0
    /\ calls = <<>>
    /\ limit = l
    /\ keep = n

Init == InitWith(MaxOps, 1)

(***************************************************************************)
(* Constructors.                                                            *)
(***************************************************************************)
Construct(name, b, script) ==
    /\ hd = "none"
    /\ hd' = "init"
    /\ bus' = b
    /\ entry_mode' = EntryMode_default
    /\ display_mode' = DisplayMode_default
    /\ op' = name
    /\ result' = "run"
    /\ ctl' = script
    /\ UNCHANGED <<pins, wr, wres, cur, trace, ev, pulses, nops, calls, limit, keep>>

new_4bit == Construct("new_4bit", "four", init_4bit(EntryMode_default))

new_8bit == Construct("new_8bit", "eight", init_8bit(EntryMode_default))

\* new_i2c running the 8-bit initialization
new_i2c_init_8bit == Construct("new_i2c", "i2c", init_8bit(EntryMode_default))

new_i2c == Construct("new_i2c", "i2c", init_4bit(EntryMode_default))

(***************************************************************************)
(* Stepping an operation.                                                   *)
(***************************************************************************)
\* the operation has returned: Ok when nothing is left to do
Finished(rest) == rest = <<>>

\* a primitive of a write together with its outcome
Outcome(prim, ok) ==
    [k |-> prim.k, pin |-> prim.pin, lvl |-> prim.lvl, us |-> prim.us, ok |-> ok]

\* self.bus.write(byte, data, delay) is entered
BusWriteCall ==
    /\ result = "run"
    /\ wres # "run"
    /\ ctl # <<>>
    /\ Head(ctl).k = "write"
    /\ wr' = DataBus_write(bus, Head(ctl).byte, Head(ctl).data)
    /\ wres' = "run"
    /\ cur' = [byte |-> Head(ctl).byte, data |-> Head(ctl).data]
    /\ trace' = Append(trace, Head(ctl))
    /\ ev' = <<>>
    /\ UNCHANGED <<hd, bus, entry_mode, display_mode, pins, op, result, ctl, pulses, nops,
                   calls, limit, keep>>

\* a pin drive of the write succeeds; after the last one the write returns Ok(())
PinOk ==
    /\ wres = "run"
    /\ wr # <<>>
    /\ Head(wr).k = "pin"
    /\ pins' = [pins EXCEPT ![Head(wr).pin] = Head(wr).lvl]
    /\ ev' = Append(ev, Outcome(Head(wr), TRUE))
    /\ pulses' = IF Head(wr).pin = "en" /\ Head(wr).lvl = "H"
                 THEN Append(pulses, pins') ELSE pulses
    /\ wr' = Tail(wr)
    /\ IF Tail(wr) = <<>>
       THEN /\ wres' = "ok"
            /\ ctl' = Tail(ctl)
            /\ result' = IF Finished(Tail(ctl)) THEN "Ok" ELSE result
            /\ hd' = IF Finished(Tail(ctl)) /\ hd = "init" THEN "live" ELSE hd
       ELSE UNCHANGED <<wres, ctl, result, hd>>
    /\ UNCHANGED <<bus, entry_mode, display_mode, op, cur, trace, nops, calls, limit, keep>>

\* PinFail with the error of the write dropped by its caller, which goes on
PinFail_ignored ==
    /\ wres = "run"
    /\ wr # <<>>
    /\ Head(wr).k = "pin"
    /\ wres' = "err"
    /\ wr' = <<>>
    /\ ctl' = Tail(ctl)
    /\ result' = IF Finished(Tail(ctl)) THEN "Ok" ELSE result
    /\ hd' = IF Finished(Tail(ctl)) /\ hd = "init" THEN "live" ELSE hd
    /\ ev' = Append(ev, Outcome(Head(wr), FALSE))
    /\ UNCHANGED <<bus, entry_mode, display_mode, pins, op, cur, trace, pulses, nops,
                   calls, limit, keep>>

\* PinFail with the error of the pin drive discarded inside the write, which goes on
PinFail_continue ==
    /\ wres = "run"
    /\ wr # <<>>
    /\ Head(wr).k = "pin"
    /\ ev' = Append(ev, Outcome(Head(wr), FALSE))
    /\ wr' = Tail(wr)
    /\ IF Tail(wr) = <<>>
       THEN /\ wres' = "ok"
            /\ ctl' = Tail(ctl)
            /\ result' = IF Finished(Tail(ctl)) THEN "Ok" ELSE result
            /\ hd' = IF Finished(Tail(ctl)) /\ hd = "init" THEN "live" ELSE hd
       ELSE UNCHANGED <<wres, ctl, result, hd>>
    /\ UNCHANGED <<bus, entry_mode, display_mode, pins, op, cur, trace, pulses, nops,
                   calls, limit, keep>>

\* PinFail with the loop of write_bytes going on to the next element after the error
PinFail_next_element ==
    /\ wres = "run"
    /\ wr # <<>>
    /\ Head(wr).k = "pin"
    /\ wres' = "err"
    /\ wr' = <<>>
    /\ ctl' = Tail(Tail(ctl))
    /\ result' = IF Finished(Tail(Tail(ctl))) THEN "Err" ELSE result
    /\ hd' = IF hd = "init" THEN "failed" ELSE hd
    /\ ev' = Append(ev, Outcome(Head(wr), FALSE))
    /\ UNCHANGED <<bus, entry_mode, display_mode, pins, op, cur, trace, pulses, nops,
                   calls, limit, keep>>

\* PinFail that drives register-select and enable low before it returns the error
PinFail_cleanup ==
    /\ wres = "run"
    /\ wr # <<>>
    /\ Head(wr).k = "pin"
    /\ wres' = "err"
    /\ wr' = <<>>
    /\ ctl' = <<>>
    /\ result' = "Err"
    /\ hd' = IF hd = "init" THEN "failed" ELSE hd
    /\ ev' = Append(ev, Outcome(Head(wr), FALSE))
    /\ pins' = [pins EXCEPT !["rs"] = "L", !["en"] = "L"]
    /\ UNCHANGED <<bus, entry_mode, display_mode, op, cur, trace, pulses, nops, calls, limit, keep>>

\* a pin drive fails: map_err(|_| Error)? returns Err from the write, and the
\* ? after every call above it returns Err from the operation
PinFail ==
    /\ wres = "run"
    /\ wr # <<>>
    /\ Head(wr).k = "pin"
    /\ wres' = "err"
    /\ wr' = <<>>
    /\ ctl' = <<>>
    /\ result' = "Err"
    /\ hd' = IF hd = "init" THEN "failed" ELSE hd
    /\ ev' = Append(ev, Outcome(Head(wr), FALSE))
    /\ UNCHANGED <<bus, entry_mode, display_mode, pins, op, cur, trace, pulses, nops,
                   calls, limit, keep>>

\* a channel write of the I2C transport succeeds: the expander takes the payload
ChannelOk ==
    /\ wres = "run"
    /\ wr # <<>>
    /\ Head(wr).k = "i2c"
    /\ pins' = [p \in PinNames |->
                   IF p \in DOMAIN Head(wr).lvl THEN Head(wr).lvl[p] ELSE pins[p]]
    /\ ev' = Append(ev, Outcome(Head(wr), TRUE))
    /\ pulses' = IF Head(wr).lvl.en = "H" THEN Append(pulses, pins') ELSE pulses
    /\ wr' = Tail(wr)
    /\ IF Tail(wr) = <<>>
       THEN /\ wres' = "ok"
            /\ ctl' = Tail(ctl)
            /\ result' = IF Finished(Tail(ctl)) THEN "Ok" ELSE result
            /\ hd' = IF Finished(Tail(ctl)) /\ hd = "init" THEN "live" ELSE hd
       ELSE UNCHANGED <<wres, ctl, result, hd>>
    /\ UNCHANGED <<bus, entry_mode, display_mode, op, cur, trace, nops, calls, limit, keep>>

\* a channel write fails: the write and the operation return Err
ChannelFail ==
    /\ wres = "run"
    /\ wr # <<>>
    /\ Head(wr).k = "i2c"
    /\ wres' = "err"
    /\ wr' = <<>>
    /\ ctl' = <<>>
    /\ result' = "Err"
    /\ hd' = IF hd = "init" THEN "failed" ELSE hd
    /\ ev' = Append(ev, Outcome(Head(wr), FALSE))
    /\ UNCHANGED <<bus, entry_mode, display_mode, pins, op, cur, trace, pulses, nops,
                   calls, limit, keep>>

\* delay.delay_ms(2u32) inside the write
BusDelay ==
    /\ wres = "run"
    /\ wr # <<>>
    /\ Head(wr).k = "delay"
    /\ ev' = Append(ev, Outcome(Head(wr), TRUE))
    /\ wr' = Tail(wr)
    /\ UNCHANGED <<hd, bus, entry_mode, display_mode, pins, op, result, ctl, wres,
                   cur, trace, pulses, nops, calls, limit, keep>>

\* delay.delay_ms / delay.delay_us of the controller
CtlDelay ==
    /\ result = "run"
    /\ wres # "run"
    /\ ctl # <<>>
    /\ Head(ctl).k = "delay"
    /\ trace' = Append(trace, Head(ctl))
    /\ ctl' = Tail(ctl)
    /\ result' = IF Finished(Tail(ctl)) THEN "Ok" ELSE result
    /\ hd' = IF Finished(Tail(ctl)) /\ hd = "init" THEN "live" ELSE hd
    /\ UNCHANGED <<bus, entry_mode, display_mode, pins, op, wr, wres, cur, ev,
                   pulses, nops, calls, limit, keep>>

(***************************************************************************)
(* Public operations of a constructed controller.  A setter stores the new  *)
(* mode before it encodes and sends it.                                     *)
(***************************************************************************)
Direction == {"Left", "Right"}

\* the last n elements of s
LastN(s, n) == IF Len(s) <= n THEN s ELSE SubSeq(s, Len(s) - n + 1, Len(s))

Call(name, arg, em, dm, script) ==
    /\ hd = "live"
    /\ result # "run"
    /\ nops < limit
    /\ nops' = nops + 1
    /\ calls' = LastN(Append(calls, [op |-> name, arg |-> arg]), keep)
    /\ op' = name
    /\ entry_mode' = em
    /\ display_mode' = dm
    /\ ctl' = script
    /\ result' = IF Finished(script) THEN "Ok" ELSE "run"
    /\ trace' = <<>>
    /\ pulses' = <<>>
    /\ ev' = <<>>
    /\ wres' = "none"
    /\ cur' = NoWrite
    /\ UNCHANGED <<hd, bus, pins, wr, limit, keep>>

\* reset running the 4-bit initialization again
reset_reinitializing == Call("reset", "-", entry_mode, display_mode, init_4bit(entry_mode))

\* reset sending the clear-display instruction
reset_as_clear == Call("reset", "-", entry_mode, display_mode, write_command(\b00000001))

reset == Call("reset", "-", entry_mode, display_mode, write_command(\b00000010))

\* clear putting the stored modes back to their defaults
clear_resetting_modes ==
    Call("clear", "-", EntryMode_default, DisplayMode_default, write_command(\b00000001))

clear == Call("clear", "-", entry_mode, display_mode, write_command(\b00000001))

\* set_display_mode sending the byte without storing the mode
set_display_mode_unstored ==
    \E m \in DisplayMode :
        Call("set_display_mode", m, entry_mode, display_mode,
             write_command(DisplayMode_as_byte(m)))

set_display_mode ==
    \E m \in DisplayMode :
        Call("set_display_mode", m, entry_mode, m, write_command(DisplayMode_as_byte(m)))

set_autoscroll ==
    \E enabled \in ShiftMode :
        LET em == [entry_mode EXCEPT !.display_shift = enabled]
        IN  Call("set_autoscroll", enabled, em, display_mode, write_command(EntryMode_as_byte(em)))

set_cursor_visibility ==
    \E visibility \in OnOff :
        LET dm == [display_mode EXCEPT !.cursor_visibility = visibility]
        IN  Call("set_cursor_visibility", visibility, entry_mode, dm,
                 write_command(DisplayMode_as_byte(dm)))

\* set_display sending the new mode while the stored mode keeps the old value
set_display_not_stored ==
    \E display \in OnOff :
        LET dm == [display_mode EXCEPT !.display = display]
        IN  Call("set_display", display, entry_mode, display_mode,
                 write_command(DisplayMode_as_byte(dm)))

set_display ==
    \E display \in OnOff :
        LET dm == [display_mode EXCEPT !.display = display]
        IN  Call("set_display", display, entry_mode, dm, write_command(DisplayMode_as_byte(dm)))

\* set_cursor_blink rebuilding the mode from the defaults instead of the stored mode
set_cursor_blink_from_default ==
    \E blink \in OnOff :
        LET dm == [DisplayMode_default EXCEPT !.cursor_blink = blink]
        IN  Call("set_cursor_blink", blink, entry_mode, dm,
                 write_command(DisplayMode_as_byte(dm)))

set_cursor_blink ==
    \E blink \in OnOff :
        LET dm == [display_mode EXCEPT !.cursor_blink = blink]
        IN  Call("set_cursor_blink", blink, entry_mode, dm,
                 write_command(DisplayMode_as_byte(dm)))

set_cursor_mode ==
    \E mode \in CursorMode :
        LET em == [entry_mode EXCEPT !.move_direction = mode]
        IN  Call("set_cursor_mode", mode, em, display_mode, write_command(EntryMode_as_byte(em)))

\* set_cursor_pos without the set-address marker bit
set_cursor_pos_cmd_unmarked(position) ==
    BitAnd(\b01111111, position)

set_cursor_pos_cmd(position) ==
    LET lower_7_bits == BitAnd(\b01111111, position)
    IN  BitOr(\b10000000, lower_7_bits)

set_cursor_pos_in(positions) ==
    \E position \in positions :
        Call("set_cursor_pos", position, entry_mode, display_mode,
             write_command(set_cursor_pos_cmd(position)))

set_cursor_pos == set_cursor_pos_in(SamplePos)

\* shift_cursor adding bits twice instead of or-ing it twice
shift_cursor_cmd_added(dir) ==
    LET bits == IF dir = "Left" THEN \b00000000 ELSE \b00000100
    IN  (\b00010000 + bits + bits) % 256

shift_cursor_cmd(dir) ==
    LET bits == IF dir = "Left" THEN \b00000000 ELSE \b00000100
    IN  BitOr(BitOr(\b00010000, bits), bits)

shift_cursor ==
    \E dir \in Direction :
        Call("shift_cursor", dir, entry_mode, display_mode, write_command(shift_cursor_cmd(dir)))

shift_display_cmd(dir) ==
    LET bits == IF dir = "Left" THEN \b00000000 ELSE \b00000100
    IN  BitOr(\b00011000, bits)

shift_display ==
    \E dir \in Direction :
        Call("shift_display", dir, entry_mode, display_mode,
             write_command(shift_display_cmd(dir)))

write_char_in(chars) ==
    \E data \in chars :
        Call("write_char", data, entry_mode, display_mode, write_byte_items(char_as_u8(data)))

write_char == write_char_in(SampleChars)

write_bytes ==
    \E n \in 0..MaxLen : \E string \in [1..n -> SliceBytes] :
        Call("write_bytes", string, entry_mode, display_mode, write_bytes_items(string))

write_str ==
    \E string \in SampleStrs :
        Call("write_str", string, entry_mode, display_mode,
             write_bytes_items(str_as_bytes(string)))

write_byte ==
    \E data \in SampleBytes :
        Call("write_byte", data, entry_mode, display_mode, write_byte_items(data))

PublicOp ==
    \/ reset \/ clear \/ set_display_mode \/ set_autoscroll \/ set_cursor_visibility
    \/ set_display \/ set_cursor_blink \/ set_cursor_mode \/ set_cursor_pos
    \/ shift_cursor \/ shift_display \/ write_char \/ write_str \/ write_bytes \/ write_byte

Step == BusWriteCall \/ PinOk \/ PinFail \/ ChannelOk \/ ChannelFail \/ BusDelay \/ CtlDelay

Next == new_4bit \/ new_8bit \/ new_i2c \/ PublicOp \/ Step

Spec == Init /\ [][Next]_vars

(***************************************************************************)
(* A controller is constructed and set_cursor_pos is called once, with any  *)
(* position a u8 can hold.                                                  *)
(***************************************************************************)
set_cursor_pos_any == set_cursor_pos_in(Byte)

NextOnePos == new_4bit \/ new_8bit \/ new_i2c \/ set_cursor_pos_any \/ Step

SpecOnePos == InitWith(1, 1) /\ [][NextOnePos]_vars

(***************************************************************************)
(* One write_char on a controller built by any constructor, for the chars   *)
(* U+0000..U+0258 and chars at the edges of the surrogate gap, of the basic *)
(* plane and of the code space.                                             *)
(***************************************************************************)
ManyChars == (0..600) \cup {55295, 57344, 65535, 65536, 128512, 1114111}

write_char_any == write_char_in(ManyChars)

NextOneChar == new_4bit \/ new_8bit \/ new_i2c \/ write_char_any \/ Step

SpecOneChar == InitWith(1, 1) /\ [][NextOneChar]_vars

(***************************************************************************)
(* The four operations that write the display-control register, called up   *)
(* to MaxModeOps times on a transport whose writes all succeed; the last    *)
(* three calls and their arguments are remembered.                          *)
(***************************************************************************)
MaxModeOps == 3

NextModes ==
    \/ new_4bit \/ new_8bit
    \/ set_display_mode \/ set_display \/ set_cursor_visibility \/ set_cursor_blink
    \/ BusWriteCall \/ PinOk \/ BusDelay \/ CtlDelay

SpecModes == InitWith(MaxModeOps, 3) /\ [][NextModes]_vars

(***************************************************************************)
(* One transport write on its own, for every byte and both values of        *)
(* is_data, on either parallel bus.                                         *)
(***************************************************************************)
InitBusOf(buses) ==
    /\ hd = "none"
    /\ bus \in buses
    /\ entry_mode = EntryMode_default
    /\ display_mode = DisplayMode_default
    /\ pins = [p \in PinNames |-> "X"]
    /\ op = "write"
    /\ result = "run"
    /\ \E byte \in Byte, data \in BOOLEAN : ctl = <<WriteItem(byte, data)>>
    /\ wr = <<>>
    /\ wres = "none"
    /\ cur = NoWrite
    /\ trace = <<>>
    /\ ev = <<>>
    /\ pulses = <<>>
    /\ nops = 0
    /\ calls = <<>>
    /\ limit = 0
    /\ keep = 1

InitBus == InitBusOf({"four", "eight"})

NextBus == BusWriteCall \/ PinOk \/ PinFail \/ BusDelay

SpecBus == InitBus /\ [][NextBus]_vars

(***************************************************************************)
(* One write through a BusWidth, for every byte, both values of is_data     *)
(* and both variants.                                                       *)
(***************************************************************************)
InitWidth == InitBusOf(BusWidth)

SpecWidth == InitWidth /\ [][NextBus]_vars

(***************************************************************************)
(* Observations used by the properties.                                     *)
(***************************************************************************)
\* the transport writes the operation has issued so far, in order
TraceWrites == SelectSeq(trace, LAMBDA e : e.k = "write")

BytesOf(ws) == [i \in 1..Len(ws) |-> ws[i].byte]

IsPrefix(s, t) == Len(s) <= Len(t) /\ \A i \in 1..Len(s) : s[i] = t[i]

\* the transport writes of the operation that have returned Ok
OkWrites == Len(TraceWrites) - (IF wres \in {"run", "err"} THEN 1 ELSE 0)

Constructors == {"new_4bit", "new_8bit", "new_i2c"}

Expected4bit == <<\h33, \h32, \h28, \h0E, \h01, EntryMode_as_byte(entry_mode), \h80>>

Expected8bit == <<\b00110000, \b00111000, \b00001110, \b00000001, \b00000111,
                  EntryMode_as_byte(entry_mode)>>

(***************************************************************************)
(* C1: new_4bit issues the transport writes 0x33, 0x32, 0x28, 0x0E, 0x01,   *)
(* the byte of the default EntryMode, 0x80, in this order, all as commands: *)
(* at every moment of the constructor the writes issued so far are a        *)
(* prefix of this list, and when it returns Ok they are the whole list.     *)
(***************************************************************************)
C1_New4bitWrites ==
    op = "new_4bit" =>
        /\ entry_mode = EntryMode_default
        /\ IsPrefix(BytesOf(TraceWrites), Expected4bit)
        /\ \A i \in 1..Len(TraceWrites) : TraceWrites[i].data = FALSE
        /\ result = "Ok" => BytesOf(TraceWrites) = Expected4bit

C1_Witness ==
    /\ op = "new_4bit"
    /\ result = "Ok"
    /\ BytesOf(TraceWrites) = <<51, 50, 40, 14, 1, 6, 128>>

(***************************************************************************)
(* C2 as stated: a successful new_4bit has issued exactly 9 transport       *)
(* writes when it returns.                                                  *)
(***************************************************************************)
C2_NineCommands ==
    (op = "new_4bit" /\ result = "Ok") => Len(TraceWrites) = 9

(***************************************************************************)
(* C2 amended: a successful new_4bit has issued exactly 7 transport writes  *)
(* when it returns (and never more than 7 at any moment).                   *)
(***************************************************************************)
C2_SevenCommands ==
    op = "new_4bit" =>
        /\ Len(TraceWrites) <= 7
        /\ result = "Ok" => Len(TraceWrites) = 7

C2_Witness ==
    /\ op = "new_4bit"
    /\ hd = "live"
    /\ Len(TraceWrites) = 7
    /\ Len(trace) = 15

(***************************************************************************)
(* C3: new_8bit issues the transport writes 0b0011_0000, 0b0011_1000,       *)
(* 0b0000_1110, 0b0000_0001, 0b0000_0111, the byte of the default           *)
(* EntryMode, in this order, all as commands, and no other.                 *)
(***************************************************************************)
C3_New8bitWrites ==
    op = "new_8bit" =>
        /\ entry_mode = EntryMode_default
        /\ IsPrefix(BytesOf(TraceWrites), Expected8bit)
        /\ \A i \in 1..Len(TraceWrites) : TraceWrites[i].data = FALSE
        /\ result = "Ok" => BytesOf(TraceWrites) = Expected8bit

C3_Witness ==
    /\ op = "new_8bit"
    /\ result = "Ok"
    /\ BytesOf(TraceWrites) = <<48, 56, 14, 1, 7, 6>>

(***************************************************************************)
(* C4: a constructor produces a controller exactly when every write of its  *)
(* initialization sequence has succeeded.  When the k-th write fails the    *)
(* constructor has returned Err, there is no controller, nothing is left to *)
(* be written, and from then on no pin is driven and no write is issued.    *)
(***************************************************************************)
InitLen == IF bus = "eight" THEN 6 ELSE 7

C4_State ==
    /\ (op \in Constructors /\ result = "Ok") => (hd = "live" /\ OkWrites = InitLen)
    /\ (op \in Constructors /\ wres = "err") =>
           /\ hd = "failed"
           /\ result = "Err"
           /\ OkWrites < InitLen
           /\ ctl = <<>>
           /\ wr = <<>>
    /\ hd = "failed" => (op \in Constructors /\ wres = "err")
    /\ (op \in Constructors /\ hd = "live") => result = "Ok"

C4_ConstructionFailsWithInit ==
    /\ []C4_State
    /\ [][hd = "failed" => (hd' = "failed" /\ trace' = trace /\ pins' = pins)]_vars

C4_Witness ==
    /\ op = "new_4bit"
    /\ hd = "failed"
    /\ Len(TraceWrites) = 3
    /\ OkWrites = 2

(***************************************************************************)
(* Observations of one transport write.                                     *)
(***************************************************************************)
Lvl(c) == IF c THEN "H" ELSE "L"

LvlBit(b, i) == Lvl(Bit(b, i) = 1)

\* indices in ev of the successful drives of pin p
OkDrives(p) == {i \in 1..Len(ev) : ev[i].k = "pin" /\ ev[i].pin = p /\ ev[i].ok}

\* indices in ev of the drives of pin p, attempted or successful
Drives(p) == {i \in 1..Len(ev) : ev[i].k = "pin" /\ ev[i].pin = p}

\* the levels successfully driven on EN by the write, in order
EnLevels ==
    LET s == SelectSeq(ev, LAMBDA e : e.k = "pin" /\ e.pin = "en" /\ e.ok)
    IN  [i \in 1..Len(s) |-> s[i].lvl]

\* the pulses of the operation that belong to the last write
WritePulses ==
    LET n == Cardinality({i \in OkDrives("en") : ev[i].lvl = "H"})
    IN  SubSeq(pulses, Len(pulses) - n + 1, Len(pulses))

\* falling edges of EN before position i of the write
FallsBefore(i) == Cardinality({j \in OkDrives("en") : j < i /\ ev[j].lvl = "L"})

Max(S) == CHOOSE x \in S : \A y \in S : y <= x

PulsesPerWrite == IF bus = "four" THEN 2 ELSE 1

(***************************************************************************)
(* C5: a successful FourBitBus write of byte b makes exactly two enable     *)
(* pulses (EN high, low, high, low); at the first rising edge D7..D4 carry  *)
(* bits 7..4 of b, at the second they carry bits 3..0 of b.                 *)
(***************************************************************************)
C5_FourBitNibbles ==
    (bus = "four" /\ wres = "ok") =>
        /\ EnLevels = <<"H", "L", "H", "L">>
        /\ Len(WritePulses) = 2
        /\ \A i \in 0..3 :
              /\ WritePulses[1][<<"d4", "d5", "d6", "d7">>[i + 1]] = LvlBit(cur.byte, 4 + i)
              /\ WritePulses[2][<<"d4", "d5", "d6", "d7">>[i + 1]] = LvlBit(cur.byte, i)

C5_Witness ==
    /\ bus = "four"
    /\ wres = "ok"
    /\ cur.byte = 165
    /\ Len(WritePulses) = 2
    /\ <<WritePulses[1].d7, WritePulses[1].d6, WritePulses[1].d5, WritePulses[1].d4>>
           = <<"H", "L", "H", "L">>
    /\ <<WritePulses[2].d7, WritePulses[2].d6, WritePulses[2].d5, WritePulses[2].d4>>
           = <<"L", "H", "L", "H">>

(***************************************************************************)
(* C6: in a FourBitBus write the first primitive is the drive of RS, high   *)
(* iff is_data; RS is driven again only after the second falling edge of    *)
(* EN, low, and only in a data write; so RS equals is_data at both rising   *)
(* edges, and a successful write leaves RS low.                             *)
(***************************************************************************)
C6_FourBitRegisterSelect ==
    bus = "four" =>
        /\ ev # <<>> => (ev[1].k = "pin" /\ ev[1].pin = "rs" /\ ev[1].lvl = Lvl(cur.data))
        /\ \A i \in Drives("rs") :
              i = 1 \/ (cur.data /\ ev[i].lvl = "L" /\ FallsBefore(i) = 2)
        /\ wres = "ok" => Cardinality(OkDrives("rs")) = (IF cur.data THEN 2 ELSE 1)
        /\ wres = "ok" => pins.rs = "L"
        /\ \A n \in 1..Len(WritePulses) : WritePulses[n].rs = Lvl(cur.data)

C6_Witness ==
    /\ bus = "four"
    /\ wres = "ok"
    /\ cur.data
    /\ Len(WritePulses) = 2
    /\ WritePulses[1].rs = "H"
    /\ WritePulses[2].rs = "H"
    /\ pins.rs = "L"

(***************************************************************************)
(* C7: a successful EightBitBus write of byte b makes exactly one enable    *)
(* pulse; at its rising edge Di carries bit i of b for i in 0..7 and RS is  *)
(* high iff is_data; a data write drives RS high before the pulse and low   *)
(* after it, a command write drives RS low once and never again.            *)
(***************************************************************************)
DataLines == <<"d0", "d1", "d2", "d3", "d4", "d5", "d6", "d7">>

C7_EightBitWrite ==
    (bus = "eight" /\ wres = "ok") =>
        /\ EnLevels = <<"H", "L">>
        /\ Len(WritePulses) = 1
        /\ \A i \in 0..7 : WritePulses[1][DataLines[i + 1]] = LvlBit(cur.byte, i)
        /\ WritePulses[1].rs = Lvl(cur.data)
        /\ ev[1].pin = "rs" /\ ev[1].lvl = Lvl(cur.data)
        /\ IF cur.data
           THEN /\ OkDrives("rs") = {1, Len(ev)}
                /\ ev[Len(ev)].lvl = "L"
                /\ FallsBefore(Len(ev)) = 1
           ELSE OkDrives("rs") = {1}
        /\ pins.rs = "L"

C7_Witness ==
    /\ bus = "eight"
    /\ wres = "ok"
    /\ cur.byte = 165
    /\ cur.data
    /\ Len(WritePulses) = 1
    /\ [i \in 1..8 |-> WritePulses[1][DataLines[i]]]
           = <<"H", "L", "H", "L", "L", "H", "L", "H">>
    /\ WritePulses[1].rs = "H"

(***************************************************************************)
(* C8 as stated: whenever a transport write has returned, with Ok or with   *)
(* Err, EN is not high and every pulse of the byte has been made (both      *)
(* nibbles on the 4-bit bus).                                               *)
(***************************************************************************)
C8_NoPartialWrite ==
    wres \in {"ok", "err"} =>
        /\ pins.en # "H"
        /\ Len(WritePulses) = PulsesPerWrite
        /\ FallsBefore(Len(ev) + 1) = PulsesPerWrite

(***************************************************************************)
(* C8 amended: whenever a transport write has returned Ok, EN is low, and   *)
(* every pulse of the byte has been asserted and deasserted.                *)
(***************************************************************************)
C8_NoPartialWriteOnSuccess ==
    wres = "ok" =>
        /\ pins.en = "L"
        /\ Len(WritePulses) = PulsesPerWrite
        /\ FallsBefore(Len(ev) + 1) = PulsesPerWrite
        /\ EnLevels[Len(EnLevels)] = "L"

C8_Witness ==
    /\ wres = "ok"
    /\ pins.en = "L"
    /\ bus = "four"
    /\ ~cur.data
    /\ FallsBefore(Len(ev) + 1) = 2

(***************************************************************************)
(* C9: when the first pin drive of a transport write (register-select)      *)
(* fails, the write has returned Err, it is the only primitive the write    *)
(* attempted, and EN was not driven during that write.                      *)
(***************************************************************************)
C9_FirstFailureNoEnable ==
    (ev # <<>> /\ ~ev[1].ok) =>
        /\ ev[1].pin = "rs"
        /\ wres = "err"
        /\ result = "Err"
        /\ wr = <<>>
        /\ Len(ev) = 1
        /\ Drives("en") = {}
        /\ WritePulses = <<>>

C9_Witness ==
    /\ ev # <<>>
    /\ ~ev[1].ok
    /\ ev[1].pin = "rs"
    /\ wres = "err"
    /\ bus = "eight"

(***************************************************************************)
(* C10: when a pin drive of a transport write fails, the operation has      *)
(* returned Err: the failed drive is the last primitive of the write and    *)
(* the only failed one, nothing is left to do, every pin driven during the  *)
(* write has the level of its last successful drive, and the last thing     *)
(* the operation did is that write, not a delay.                            *)
(***************************************************************************)
C10_ErrorPropagates ==
    wres = "err" =>
        /\ result = "Err"
        /\ ctl = <<>>
        /\ wr = <<>>
        /\ ev # <<>>
        /\ ~ev[Len(ev)].ok
        /\ \A i \in 1..(Len(ev) - 1) : ev[i].ok
        /\ \A p \in PinNames : OkDrives(p) # {} => pins[p] = ev[Max(OkDrives(p))].lvl
        /\ trace # <<>>
        /\ trace[Len(trace)].k = "write"
        /\ trace[Len(trace)].byte = cur.byte
        /\ Len(trace) - Len(TraceWrites)
               = OkWrites + (IF op \in Constructors THEN 1 ELSE 0)

C10_Witness ==
    /\ op = "write_byte"
    /\ wres = "err"
    /\ result = "Err"
    /\ pins.rs = "H"
    /\ Len(ev) > 1

C12_DefaultAsDocumented ==
    (op \in Constructors) =>
        /\ display_mode.display = "On"
        /\ display_mode.cursor_visibility = "Off"
        /\ display_mode.cursor_blink = "Off"
        /\ DisplayMode_as_byte(display_mode) = \b00001100

(***************************************************************************)
(* C13: for all four EntryMode values as_byte is 0b0000_0100, plus          *)
(* 0b0000_0010 iff move_direction = Increment, plus 0b0000_0001 iff         *)
(* display_shift = On; bit 2 is set and no bit above bit 2 is set.  Stated  *)
(* of the byte set_autoscroll and set_cursor_mode send for the stored mode  *)
(* and of the encoder on every EntryMode (a fact about the function alone,  *)
(* evaluated in the states before a controller exists).                     *)
(***************************************************************************)
EntryModeSetters == {"set_autoscroll", "set_cursor_mode"}

EntryByteOk(em, b) ==
    /\ b = 4 + (IF em.move_direction = "Increment" THEN 2 ELSE 0)
             + (IF em.display_shift = "On" THEN 1 ELSE 0)
    /\ Bit(b, 2) = 1
    /\ Bit(b, 1) = 1 <=> em.move_direction = "Increment"
    /\ Bit(b, 0) = 1 <=> em.display_shift = "On"
    /\ \A i \in 3..7 : Bit(b, i) = 0

C13_EntryModeByte ==
    /\ (op \in EntryModeSetters /\ trace # <<>>) => EntryByteOk(entry_mode, trace[1].byte)
    /\ hd = "none" => \A em \in EntryMode : EntryByteOk(em, EntryMode_as_byte(em))

C13_Witness ==
    /\ op = "set_autoscroll"
    /\ entry_mode = [move_direction |-> "Decrement", display_shift |-> "On"]
    /\ result = "Ok"
    /\ trace[1].byte = 5

(***************************************************************************)
(* C14: for all eight DisplayMode values as_byte is 0b0000_1000 with bit 2  *)
(* set iff display = On, bit 1 set iff cursor_visibility = On, bit 0 set    *)
(* iff cursor_blink = On, and no other bit set.  Stated of the byte the     *)
(* display-mode operations send for the stored mode and of the encoder on   *)
(* every DisplayMode (a fact about the function alone, evaluated in the     *)
(* states before a controller exists).                                      *)
(***************************************************************************)
DisplayModeSetters == {"set_display", "set_cursor_visibility", "set_cursor_blink"}

DisplayByteOk(dm, b) ==
    /\ b = 8 + (IF dm.display = "On" THEN 4 ELSE 0)
             + (IF dm.cursor_visibility = "On" THEN 2 ELSE 0)
             + (IF dm.cursor_blink = "On" THEN 1 ELSE 0)
    /\ Bit(b, 3) = 1
    /\ Bit(b, 2) = 1 <=> dm.display = "On"
    /\ Bit(b, 1) = 1 <=> dm.cursor_visibility = "On"
    /\ Bit(b, 0) = 1 <=> dm.cursor_blink = "On"
    /\ \A i \in 4..7 : Bit(b, i) = 0

C14_DisplayModeByte ==
    /\ (op \in DisplayModeSetters \cup {"set_display_mode"} /\ trace # <<>>) =>
           DisplayByteOk(display_mode, trace[1].byte)
    /\ hd = "none" => \A dm \in DisplayMode : DisplayByteOk(dm, DisplayMode_as_byte(dm))

C14_Witness ==
    /\ op = "set_display_mode"
    /\ display_mode = [cursor_visibility |-> "On", cursor_blink |-> "Off", display |-> "Off"]
    /\ result = "Ok"
    /\ trace[1].byte = 10

(***************************************************************************)
(* C15: set_cursor_pos(p), for every p in 0..255, sends one command, the    *)
(* byte 0x80 | (p & 0x7F) (128 + p mod 128), whose bit 7 is set; it fails   *)
(* only when the transport write fails; p and p + 0x80 send the same byte.  *)
(***************************************************************************)
LastCall == calls[Len(calls)]

C15_SetCursorPos ==
    /\ (op = "set_cursor_pos" /\ trace # <<>>) =>
           /\ trace[1] = WriteItem(128 + (LastCall.arg % 128), FALSE)
           /\ Bit(trace[1].byte, 7) = 1
           /\ Len(TraceWrites) = 1
           /\ trace[1].byte = set_cursor_pos_cmd((LastCall.arg + 128) % 256)
    /\ (op = "set_cursor_pos" /\ result = "Err") => wres = "err"

C15_Witness ==
    /\ op = "set_cursor_pos"
    /\ LastCall.arg = 133
    /\ result = "Ok"
    /\ trace[1].byte = 133
    /\ trace[1].byte = set_cursor_pos_cmd(5)

(***************************************************************************)
(* C16: shift_cursor(Left) sends command 0x10 and shift_cursor(Right) 0x14, *)
(* shift_display(Left) sends 0x18 and shift_display(Right) 0x1C; the byte   *)
(* of shift_cursor is the one a single OR of the direction bits gives.      *)
(***************************************************************************)
C16_ShiftBytes ==
    /\ (op = "shift_cursor" /\ trace # <<>>) =>
           /\ trace[1] = WriteItem(IF LastCall.arg = "Left" THEN 16 ELSE 20, FALSE)
           /\ trace[1].byte = BitOr(16, IF LastCall.arg = "Left" THEN 0 ELSE 4)
    /\ (op = "shift_display" /\ trace # <<>>) =>
           trace[1] = WriteItem(IF LastCall.arg = "Left" THEN 24 ELSE 28, FALSE)

C16_Witness ==
    /\ op = "shift_cursor"
    /\ LastCall.arg = "Right"
    /\ result = "Ok"
    /\ trace[1].byte = 20

(***************************************************************************)
(* C17: a single-command public operation that returns Ok has issued        *)
(* exactly one transport write and then exactly one delay of 100            *)
(* microseconds, and nothing else; at no moment has it done more.           *)
(***************************************************************************)
SingleCommandOps ==
    {"reset", "clear", "set_display_mode", "set_display", "set_cursor_visibility",
     "set_cursor_blink", "set_autoscroll", "set_cursor_mode", "set_cursor_pos",
     "shift_cursor", "shift_display", "write_byte", "write_char"}

C17_OneWriteOneDelay ==
    op \in SingleCommandOps =>
        /\ Len(trace) <= 2
        /\ trace # <<>> => trace[1].k = "write"
        /\ Len(trace) = 2 => trace[2] = DelayItem(100)
        /\ result = "Ok" <=> Len(trace) = 2

C17_Witness ==
    /\ op = "write_char"
    /\ result = "Ok"
    /\ trace = <<WriteItem(65, TRUE), DelayItem(100)>>

(***************************************************************************)
(* C18: reset sends the byte 0x02 and clear the byte 0x01, as commands,     *)
(* whatever the stored EntryMode and DisplayMode are.                       *)
(***************************************************************************)
C18_ResetAndClear ==
    /\ (op = "reset" /\ trace # <<>>) => trace[1] = WriteItem(2, FALSE)
    /\ (op = "clear" /\ trace # <<>>) => trace[1] = WriteItem(1, FALSE)

C18_Witness ==
    /\ op = "reset"
    /\ result = "Ok"
    /\ trace[1] = WriteItem(2, FALSE)
    /\ display_mode # DisplayMode_default
    /\ entry_mode = EntryMode_default

(***************************************************************************)
(* C19: a single-field setter changes only the field it names in the        *)
(* stored mode and leaves the other stored mode alone, and the command it   *)
(* sends is the encoding of the whole stored mode after the update, so the  *)
(* byte carries the fields set by earlier calls too.                        *)
(***************************************************************************)
SetterCalled(name) == nops' = nops + 1 /\ op' = name

SetterArg == calls'[Len(calls')].arg

C19_SetterStep ==
    /\ SetterCalled("set_display") =>
           /\ display_mode' = [display_mode EXCEPT !.display = SetterArg]
           /\ entry_mode' = entry_mode
    /\ SetterCalled("set_cursor_visibility") =>
           /\ display_mode' = [display_mode EXCEPT !.cursor_visibility = SetterArg]
           /\ entry_mode' = entry_mode
    /\ SetterCalled("set_cursor_blink") =>
           /\ display_mode' = [display_mode EXCEPT !.cursor_blink = SetterArg]
           /\ entry_mode' = entry_mode
    /\ SetterCalled("set_autoscroll") =>
           /\ entry_mode' = [entry_mode EXCEPT !.display_shift = SetterArg]
           /\ display_mode' = display_mode
    /\ SetterCalled("set_cursor_mode") =>
           /\ entry_mode' = [entry_mode EXCEPT !.move_direction = SetterArg]
           /\ display_mode' = display_mode
    /\ (nops' = nops) => (entry_mode' = entry_mode /\ display_mode' = display_mode)

C19_SetterByte ==
    /\ (op \in {"set_display", "set_cursor_visibility", "set_cursor_blink"} /\ trace # <<>>) =>
           trace[1] = WriteItem(DisplayMode_as_byte(display_mode), FALSE)
    /\ (op \in {"set_autoscroll", "set_cursor_mode"} /\ trace # <<>>) =>
           trace[1] = WriteItem(EntryMode_as_byte(entry_mode), FALSE)

C19_Setters == [][C19_SetterStep]_vars /\ []C19_SetterByte

C19_Witness ==
    /\ op = "set_cursor_blink"
    /\ nops = 2
    /\ result = "Ok"
    /\ display_mode = [display |-> "Off", cursor_visibility |-> "On", cursor_blink |-> "Off"]
    /\ trace[1].byte = 10

(***************************************************************************)
(* C20: set_display_mode(m) stores m and sends the encoding of m in one     *)
(* command; the calls set_display(m.display), set_cursor_visibility(        *)
(* m.cursor_visibility), set_cursor_blink(m.cursor_blink) in that order,    *)
(* all successful, end with the same stored DisplayMode m and with the same *)
(* byte as their last display-control command.                              *)
(***************************************************************************)
ThreeSetters ==
    /\ Len(calls) >= 3
    /\ calls[Len(calls) - 2].op = "set_display"
    /\ calls[Len(calls) - 1].op = "set_cursor_visibility"
    /\ calls[Len(calls)].op = "set_cursor_blink"

ThreeSettersMode ==
    [display |-> calls[Len(calls) - 2].arg,
     cursor_visibility |-> calls[Len(calls) - 1].arg,
     cursor_blink |-> calls[Len(calls)].arg]

Utf8Table(c) ==
    CASE c = 65 -> <<65>>
      [] c = 321 -> <<197, 129>>
      [] c = 128512 -> <<240, 159, 152, 128>>

RECURSIVE Utf8Bytes(_)
Utf8Bytes(str) == IF str = <<>> THEN <<>> ELSE Utf8Table(Head(str)) \o Utf8Bytes(Tail(str))

\* the byte sequence the current text operation was given
GivenBytes ==
    CASE op = "write_bytes" -> LastCall.arg
      [] op = "write_str" -> Utf8Bytes(LastCall.arg)
      [] op = "write_byte" -> <<LastCall.arg>>

TextOps == {"write_bytes", "write_str", "write_byte"}

C21_WriteBytesInOrder ==
    op \in TextOps =>
        /\ Len(trace) <= 2 * Len(GivenBytes)
        /\ \A i \in 1..Len(trace) :
               trace[i] = IF i % 2 = 1 THEN WriteItem(GivenBytes[(i + 1) \div 2], TRUE)
                          ELSE DelayItem(100)
        /\ result = "Ok" => Len(trace) = 2 * Len(GivenBytes)
        /\ result = "Ok" => Len(TraceWrites) = Len(GivenBytes)

C21_Witness ==
    /\ op = "write_str"
    /\ LastCall.arg = <<321, 65>>
    /\ result = "Ok"
    /\ BytesOf(TraceWrites) = <<197, 129, 65>>
    /\ Len(trace) = 6

(***************************************************************************)
(* C22: write_char(c) never rejects a character: for every c it sends       *)
(* exactly one data byte, the code point of c modulo 256, then waits 100    *)
(* microseconds, which is the write write_byte performs for that byte; it   *)
(* returns Err only when the transport write fails.                         *)
(***************************************************************************)
C22_WriteCharTruncates ==
    op = "write_char" =>
        /\ result = "run" \/ trace # <<>>
        /\ trace # <<>> =>
               /\ trace[1].k = "write" /\ trace[1].data
               /\ trace[1].byte \in Byte
               /\ (LastCall.arg - trace[1].byte) % 256 = 0
        /\ Len(TraceWrites) <= 1
        /\ result = "Ok" => Len(trace) = 2 /\ trace[2] = DelayItem(100)
        /\ result = "Err" => wres = "err"

C22_Witness ==
    /\ op = "write_char"
    /\ LastCall.arg = 321
    /\ result = "Ok"
    /\ trace = <<WriteItem(65, TRUE), DelayItem(100)>>
    /\ bus = "eight"

(***************************************************************************)
(* C23: BusWidth::write performs exactly the pin operations and delays of   *)
(* write on the FourBitBus or EightBitBus the BusWidth holds, in the same   *)
(* order, stops where that write stops, and returns Ok exactly when every   *)
(* one of them was performed and Err exactly when one of them failed; the   *)
(* variant never changes.                                                   *)
(***************************************************************************)
PrimsOf(es) == [i \in 1..Len(es) |-> [k |-> es[i].k, pin |-> es[i].pin, lvl |-> es[i].lvl,
                                      us |-> es[i].us]]

\* write called on the transport the variant holds
HeldBusWrite ==
    IF bus = "BusWidth::FourBitBus" THEN BusWidth_FourBitBus_write(cur.byte, cur.data)
    ELSE EightBitBus_write(cur.byte, cur.data)

C23_DispatchOnly ==
    (bus \in BusWidth /\ wres # "none") =>
        /\ IsPrefix(PrimsOf(ev), HeldBusWrite)
        /\ wres = "run" => PrimsOf(ev) \o wr = HeldBusWrite
        /\ \A i \in 1..(Len(ev) - 1) : ev[i].ok
        /\ wres = "ok" <=> (Len(ev) = Len(HeldBusWrite) /\ ev[Len(ev)].ok)
        /\ wres = "err" <=> (ev # <<>> /\ ~ev[Len(ev)].ok)
        /\ result = "Ok" <=> wres = "ok"
        /\ result = "Err" <=> wres = "err"

C23_BusWidth == []C23_DispatchOnly /\ [][bus' = bus]_vars

C23_Witness ==
    /\ bus = "BusWidth::FourBitBus"
    /\ cur = [byte |-> 165, data |-> TRUE]
    /\ result = "Ok"
    /\ Len(ev) = 16
    /\ PrimsOf(ev) = HeldBusWrite

(***************************************************************************)
(* C24: new_i2c issues the transport writes and the delays of the 4-bit     *)
(* initialization, the ones new_4bit issues, in the same order, all of them *)
(* when every channel write succeeds, and never sends the 8-bit path's      *)
(* commands 0b0011_0000 or 0b0011_1000.                                     *)
(***************************************************************************)
FourBitInitTrace ==
    <<DelayItem(15000),
      WriteItem(51, FALSE), DelayItem(5000),
      WriteItem(50, FALSE), DelayItem(100),
      WriteItem(40, FALSE), DelayItem(100),
      WriteItem(14, FALSE), DelayItem(100),
      WriteItem(1, FALSE), DelayItem(100),
      WriteItem(6, FALSE), DelayItem(100),
      WriteItem(128, FALSE), DelayItem(100)>>

C24_I2cUses4bitInit ==
    op \in {"new_i2c", "new_4bit"} =>
        /\ IsPrefix(trace, FourBitInitTrace)
        /\ result = "Ok" => trace = FourBitInitTrace
        /\ \A i \in 1..Len(trace) : trace[i].k = "write" => trace[i].byte \notin {48, 56}

C24_Witness ==
    /\ op = "new_i2c"
    /\ bus = "i2c"
    /\ result = "Ok"
    /\ trace = FourBitInitTrace

(***************************************************************************)
(* C25: the stored EntryMode and DisplayMode change only when a mode setter *)
(* is called: reset, clear, set_cursor_pos, shift_cursor, shift_display,    *)
(* write_byte, write_char, write_bytes and write_str leave both as they     *)
(* were, at the call and at every later step, whether the operation ends in *)
(* Ok or in Err; a DisplayMode setter leaves the EntryMode and an EntryMode *)
(* setter leaves the DisplayMode.                                           *)
(***************************************************************************)
NonSetters ==
    {"reset", "clear", "set_cursor_pos", "shift_cursor", "shift_display",
     "write_byte", "write_char", "write_bytes", "write_str"}

Called(names) == nops' = nops + 1 /\ op' \in names

C25_ModeFrame ==
    /\ Called(NonSetters) => (entry_mode' = entry_mode /\ display_mode' = display_mode)
    /\ Called(DisplayModeSetters \cup {"set_display_mode"}) => entry_mode' = entry_mode
    /\ Called(EntryModeSetters) => display_mode' = display_mode
    /\ (hd = "live" /\ nops' = nops) =>
           (entry_mode' = entry_mode /\ display_mode' = display_mode)

C25_OnlySettersChangeModes == [][C25_ModeFrame]_vars

C25_Witness ==
    /\ op = "shift_display"
    /\ result = "Err"
    /\ nops = 2
    /\ entry_mode = [move_direction |-> "Decrement", display_shift |-> "Off"]
    /\ display_mode = DisplayMode_default

(***************************************************************************)
(* C26: after construction no public operation sends an initialization or   *)
(* function-set command again: every command byte written after             *)
(* construction is 0x01 or 0x02, or in 0x04..0x0F, or one of 0x10, 0x14,    *)
(* 0x18, 0x1C, or in 0x80..0xFF; none is in 0x20..0x3F.                     *)
(***************************************************************************)
CommandsAfterInit == {1, 2} \cup (4..15) \cup {16, 20, 24, 28} \cup (128..255)

CommandsOf(tr) == {tr[i].byte : i \in {j \in 1..Len(tr) : tr[j].k = "write" /\ ~tr[j].data}}

C26_InitNotReentered ==
    (hd = "live" /\ nops >= 1) =>
        /\ CommandsOf(trace) \subseteq CommandsAfterInit
        /\ CommandsOf(trace) \cap (32..63) = {}
        /\ Len(trace) <= 2 \/ op \in {"write_bytes", "write_str"}

C26_Witness ==
    /\ nops = 2
    /\ op = "set_cursor_pos"
    /\ result = "Ok"
    /\ CommandsOf(trace) = {192}

(***************************************************************************)
(* C27: in both initialization paths a 15 ms delay comes before the first   *)
(* write, a 5 ms delay comes after the first write and before the second,   *)
(* and a 100 microsecond delay follows every later write, the last one      *)
(* included, before the constructor returns Ok.                             *)
(***************************************************************************)
C27_InitDelays ==
    op \in Constructors =>
        /\ \A i \in 1..Len(trace) :
               /\ i = 1 => trace[i] = DelayItem(15000)
               /\ i = 3 => trace[i] = DelayItem(5000)
               /\ (i > 3 /\ i % 2 = 1) => trace[i] = DelayItem(100)
               /\ i % 2 = 0 => trace[i].k = "write"
        /\ result = "Ok" =>
               /\ Len(trace) = 2 * InitLen + 1
               /\ trace[Len(trace)] = DelayItem(100)

C27_Witness ==
    /\ op = "new_8bit"
    /\ result = "Ok"
    /\ Len(trace) = 13
    /\ trace[1] = DelayItem(15000)
    /\ trace[3] = DelayItem(5000)
    /\ trace[13] = DelayItem(100)

(***************************************************************************)
(* C28: every enable pulse of the 4-bit and 8-bit transports is EN high,    *)
(* one delay of 2 ms, EN low; RS and every data line of the bus have been   *)
(* driven for that pulse before EN goes high, and neither RS nor a data     *)
(* line is driven while EN is high, so the levels at the falling edge are   *)
(* those at the rising edge.                                                *)
(***************************************************************************)
BusDataLines == IF bus = "four" THEN {"d4", "d5", "d6", "d7"} ELSE {DataLines[i] : i \in 1..8}

\* indices in ev where EN was driven high
Rises == {i \in OkDrives("en") : ev[i].lvl = "H"}

\* the last falling edge of EN before position i, 0 when there is none
LastFallBefore(i) == Max({0} \cup {j \in OkDrives("en") : j < i /\ ev[j].lvl = "L"})

C28_EnablePulse ==
    /\ \A i \in Rises :
           /\ i + 1 <= Len(ev) => (ev[i + 1].k = "delay" /\ ev[i + 1].us = 2000)
           /\ i + 2 <= Len(ev) =>
                  (ev[i + 2].k = "pin" /\ ev[i + 2].pin = "en" /\ ev[i + 2].lvl = "L")
           /\ \E j \in OkDrives("rs") : j < i
           /\ \A p \in BusDataLines : \E j \in OkDrives(p) : LastFallBefore(i) < j /\ j < i
    /\ \A p \in BusDataLines \cup {"rs"} : \A j \in Drives(p) :
           Cardinality({i \in Rises : i < j}) = FallsBefore(j)
    /\ \A i \in 1..Len(ev) : ev[i].k = "delay" => (i - 1) \in Rises

C28_Witness ==
    /\ bus = "four"
    /\ wres = "ok"
    /\ cur = [byte |-> 65, data |-> TRUE]
    /\ Rises = {6, 13}
    /\ ev[7].us = 2000
    /\ LastFallBefore(13) = 8

(***************************************************************************)
(* C29: when the write of element i fails during write_bytes or write_str   *)
(* the operation returns Err at once: the elements before i have each been  *)
(* sent once as data, each followed by its delay, element i is the last     *)
(* write attempted, nothing is sent after it and nothing is sent again.     *)
(***************************************************************************)
SequenceOps == {"write_bytes", "write_str"}

C29_Failed == op \in SequenceOps /\ wres = "err"

C29_AbortState ==
    C29_Failed =>
        /\ result = "Err"
        /\ ctl = <<>>
        /\ TraceWrites # <<>>
        /\ Len(trace) = 2 * Len(TraceWrites) - 1
        /\ trace[Len(trace)].k = "write"
        /\ BytesOf(TraceWrites) = SubSeq(GivenBytes, 1, Len(TraceWrites))
        /\ \A i \in 1..Len(TraceWrites) : TraceWrites[i].data

C29_AbortStep == (C29_Failed /\ nops' = nops) => (trace' = trace /\ result' = "Err")

C29_WriteBytesAborts == []C29_AbortState /\ [][C29_AbortStep]_vars

C29_Witness ==
    /\ op = "write_bytes"
    /\ LastCall.arg = <<65, 165>>
    /\ result = "Err"
    /\ trace = <<WriteItem(65, TRUE), DelayItem(100), WriteItem(165, TRUE)>>

(***************************************************************************)
(* C30: after a successful construction and successful public operations    *)
(* the encoded byte of the stored DisplayMode equals the display-control    *)
(* command (a command byte in 0x08..0x0F) most recently sent to the bus,    *)
(* the one sent during initialization included.                             *)
(***************************************************************************)
\* the display-control commands the operation has sent, in order
DisplayCommands ==
    SelectSeq(trace, LAMBDA e : e.k = "write" /\ ~e.data /\ e.byte \in 8..15)

C30_StoredModeAgrees ==
    (hd = "live" /\ result = "Ok" /\ DisplayCommands # <<>>) =>
        DisplayCommands[Len(DisplayCommands)].byte = DisplayMode_as_byte(display_mode)

(***************************************************************************)
(* C31: a mode setter stores the new value before it transmits: from the    *)
(* call on, and still when the transport write has failed and the call has  *)
(* returned Err, the stored mode holds the value the setter was given; it   *)
(* is not rolled back.                                                      *)
(***************************************************************************)
C31_StoredBeforeSent ==
    /\ op = "set_display_mode" => display_mode = LastCall.arg
    /\ op = "set_display" => display_mode.display = LastCall.arg
    /\ op = "set_cursor_visibility" => display_mode.cursor_visibility = LastCall.arg
    /\ op = "set_cursor_blink" => display_mode.cursor_blink = LastCall.arg
    /\ op = "set_autoscroll" => entry_mode.display_shift = LastCall.arg
    /\ op = "set_cursor_mode" => entry_mode.move_direction = LastCall.arg

\* the failed setter has left a stored mode the display never received
C31_Witness ==
    /\ op = "set_display"
    /\ nops = 1
    /\ LastCall.arg = "Off"
    /\ result = "Err"
    /\ wres = "err"
    /\ display_mode.display = "Off"
    /\ display_mode # DisplayMode_default

(***************************************************************************)
(* C32: a successful new_4bit on the 4-bit parallel bus makes exactly 14    *)
(* enable pulses, all with RS low, and the nibbles on D7..D4 at the pulses  *)
(* are, in order, 0x3 0x3 0x3 0x2 0x2 0x8 0x0 0xE 0x0 0x1 0x0 0x6 0x8 0x0.  *)
(***************************************************************************)
NibbleAt(snapshot) ==
    (IF snapshot.d7 = "H" THEN 8 ELSE 0) + (IF snapshot.d6 = "H" THEN 4 ELSE 0)
    + (IF snapshot.d5 = "H" THEN 2 ELSE 0) + (IF snapshot.d4 = "H" THEN 1 ELSE 0)

InitNibbles == <<3, 3, 3, 2, 2, 8, 0, 14, 0, 1, 0, 6, 8, 0>>

C32_InitPulses ==
    op = "new_4bit" =>
        /\ Len(pulses) <= 14
        /\ \A i \in 1..Len(pulses) :
               /\ pulses[i].rs = "L"
               /\ pulses[i].en = "H"
               /\ NibbleAt(pulses[i]) = InitNibbles[i]
        /\ result = "Ok" => (Len(pulses) = 14 /\ pins.en = "L")

C32_Witness ==
    /\ op = "new_4bit"
    /\ bus = "four"
    /\ result = "Ok"
    /\ Len(pulses) = 14
    /\ NibbleAt(pulses[4]) = 2
    /\ NibbleAt(pulses[8]) = 14

====
